---- MODULE Spec2Model ----
(***************************************************************************)
(* Model of caso/record.py: the three accounting records CloudRecord,      *)
(* IPRecord and AcceleratorRecord, their validating setters, their derived *)
(* getters and their version-filtered serialisation.                       *)
(*                                                                         *)
(* Python values are records [t |-> <type name>, v |-> <payload>]:         *)
(*   NoneType  v = <<>>                                                    *)
(*   int       v = the integer                                             *)
(*   float     v = the number in ticks (1/Ticks of a unit); a float whose  *)
(*             v is a multiple of Ticks is a whole number such as 2.0      *)
(*   float_inf v = <<>>      (float("inf"): isinstance float, truthy)      *)
(*   str       v = the sequence of code points                            *)
(*   datetime  v = naive local time, in ticks since the epoch              *)
(*   timedelta v = ticks                                                   *)
(*   dict      v = function from key to value                              *)
(*   an exception class name: a raised exception (v = <<>>)                *)
(***************************************************************************)
EXTENDS Integers, Sequences, FiniteSets, TLC

VARIABLES self,    \* the record object under observation (its attributes)
          last,    \* the last call made on it: operation, argument, result
          given    \* history: how active_duration was last given
vars == <<self, last, given>>

-----------------------------------------------------------------------------
(* Bounds of the model *)
Ticks == 2      \* sub-second resolution: ticks per second
MaxTick == 2    \* datetimes range over ticks 0..MaxTick
MaxDur == 2     \* the nonzero explicit integer duration, in seconds
MaxCount == 2   \* the nonzero count

-----------------------------------------------------------------------------
(* Python values *)
NoneV == [t |-> "NoneType", v |-> <<>>]
IntV(n) == [t |-> "int", v |-> n]
FloatV(k) == [t |-> "float", v |-> k]
InfV == [t |-> "float_inf", v |-> <<>>]
StrV(s) == [t |-> "str", v |-> s]
DatetimeV(k) == [t |-> "datetime", v |-> k]
TimedeltaV(k) == [t |-> "timedelta", v |-> k]
DictV(f) == [t |-> "dict", v |-> f]
Raise(e) == [t |-> e, v |-> <<>>]

ExcTypes == {"ValueError", "TypeError", "AttributeError", "OverflowError",
             "RecordVersionNotFound"}
IsExc(x) == x.t \in ExcTypes

\* bool(x)
Truthy(x) ==
    CASE x.t = "NoneType" -> FALSE
      [] x.t \in {"int", "float", "timedelta"} -> x.v # 0
      [] x.t = "str" -> x.v # <<>>
      [] x.t = "dict" -> DOMAIN x.v # {}
      [] OTHER -> TRUE

\* a and b, for an already evaluated a (b is only used when a is truthy)
PyAnd(a, b) == IF IsExc(a) THEN a ELSE IF Truthy(a) THEN b ELSE a

\* isinstance(value, (int, float))
IsNumber(value) == value.t \in {"int", "float", "float_inf"}
\* isinstance(value, datetime.datetime)
IsDatetime(value) == value.t = "datetime"

\* truncation toward zero of k ticks to whole units
Trunc(k) == IF k >= 0 THEN k \div Ticks ELSE -((-k) \div Ticks)

\* a - b
PySub(a, b) ==
    CASE IsExc(a) -> a
      [] IsExc(b) -> b
      [] a.t = "datetime" /\ b.t = "datetime" -> TimedeltaV(a.v - b.v)
      [] a.t = "int" /\ b.t = "int" -> IntV(a.v - b.v)
      [] OTHER -> Raise("TypeError")

\* x.total_seconds()
TotalSeconds(x) ==
    CASE IsExc(x) -> x
      [] x.t = "timedelta" -> FloatV(x.v)
      [] OTHER -> Raise("AttributeError")

RECURSIVE Repeat(_, _)
Repeat(s, n) == IF n <= 0 THEN <<>> ELSE s \o Repeat(s, n - 1)

\* a * b
PyMul(a, b) ==
    CASE IsExc(a) -> a
      [] IsExc(b) -> b
      [] a.t = "int" /\ b.t = "int" -> IntV(a.v * b.v)
      [] a.t = "float" /\ b.t = "int" -> FloatV(a.v * b.v)
      [] a.t = "float_inf" /\ b.t = "int" -> InfV
      [] a.t = "str" /\ b.t = "int" -> StrV(Repeat(a.v, b.v))
      [] OTHER -> Raise("TypeError")

\* a == b on Python values: numbers compare by value across int and float
PyEq(a, b) ==
    IF a.t \in {"int", "float"} /\ b.t \in {"int", "float"}
    THEN (IF a.t = "int" THEN a.v * Ticks ELSE a.v)
         = (IF b.t = "int" THEN b.v * Ticks ELSE b.v)
    ELSE a = b

\* decimal digits of a natural number, as code points
RECURSIVE Digits(_)
Digits(n) == IF n < 10 THEN <<48 + n>> ELSE Digits(n \div 10) \o <<48 + (n % 10)>>

\* x.strftime("%s"): the epoch seconds of a naive local datetime, as text
Strftime(x) ==
    CASE IsExc(x) -> x
      [] x.t = "datetime" ->
            LET secs == x.v \div Ticks
            IN  StrV(IF secs < 0 THEN <<45>> \o Digits(-secs) ELSE Digits(secs))
      [] OTHER -> Raise("AttributeError")

RECURSIVE ParseNat(_)
ParseNat(s) ==
    IF s = <<>> THEN 0
    ELSE 10 * ParseNat(SubSeq(s, 1, Len(s) - 1)) + (s[Len(s)] - 48)

IsDigits(s) == s # <<>> /\ \A i \in 1..Len(s) : s[i] \in 48..57

\* int(x)
PyInt(x) ==
    CASE IsExc(x) -> x
      [] x.t = "int" -> x
      [] x.t = "float" -> IntV(Trunc(x.v))
      [] x.t = "float_inf" -> Raise("OverflowError")
      [] x.t = "str" /\ IsDigits(x.v) -> IntV(ParseNat(x.v))
      [] x.t = "str" /\ x.v # <<>> /\ x.v[1] = 45 /\ IsDigits(Tail(x.v)) ->
            IntV(-ParseNat(Tail(x.v)))
      [] x.t = "str" -> Raise("ValueError")
      [] OTHER -> Raise("TypeError")

\* value.encode('ascii', 'ignore').decode('utf-8')
AsciiIgnore(value) ==
    IF value.t # "str" THEN Raise("AttributeError")
    ELSE StrV(SelectSeq(value.v, LAMBDA c : c < 128))

Range(seq) == {seq[i] : i \in 1..Len(seq)}

\* the version strings "0.1", "0.2", "0.4"
V01 == StrV(<<48, 46, 49>>)
V02 == StrV(<<48, 46, 50>>)
V04 == StrV(<<48, 46, 52>>)

\* caso.user_agent, the default cloud_type
user_agent == StrV(<<99, 97, 115, 111>>)

-----------------------------------------------------------------------------
(* class CloudRecord *)
CloudRecord_version == V04

CloudRecord_v02_fields ==
    << "VMUUID", "SiteName", "MachineName", "LocalUserId", "LocalGroupId",
       "GlobalUserName", "FQAN", "Status", "StartTime", "EndTime",
       "SuspendDuration", "WallDuration", "CpuDuration", "CpuCount",
       "NetworkType", "NetworkInbound", "NetworkOutbound", "Memory", "Disk",
       "StorageRecordId", "ImageId", "CloudType" >>

CloudRecord_v04_fields ==
    CloudRecord_v02_fields \o
    << "CloudComputeService", "BenchmarkType", "Benchmark", "PublicIPCount" >>

CloudRecord_version_field_map ==
    [ver \in {V02, V04} |->
        IF ver = V02 THEN CloudRecord_v02_fields ELSE CloudRecord_v04_fields]

\* A setter returns [raised |-> the exception or None, obj |-> the object after
\* the call].
Returned(obj) == [raised |-> NoneV, obj |-> obj]
Raised(e, obj) == [raised |-> Raise(e), obj |-> obj]

\* CloudRecord.name setter
name_set(obj, value) ==
    LET stripped == AsciiIgnore(value)
    IN  IF IsExc(stripped) THEN Raised(stripped.t, obj)
        ELSE Returned([obj EXCEPT !._name = stripped])

\* CloudRecord.wall_duration setter
wall_duration_set(obj, value) ==
    IF Truthy(value) /\ ~IsNumber(value) THEN Raised("ValueError", obj)
    ELSE Returned([obj EXCEPT !._wall_duration = value])

\* CloudRecord.cpu_duration setter
cpu_duration_set(obj, value) ==
    IF Truthy(value) /\ ~IsNumber(value) THEN Raised("ValueError", obj)
    ELSE Returned([obj EXCEPT !._cpu_duration = value])

\* start_time setter that stores the value before validating it
start_time_set_StoreFirst(obj, value) ==
    IF Truthy(value) /\ ~IsDatetime(value)
    THEN Raised("ValueError", [obj EXCEPT !._start_time = value])
    ELSE Returned([obj EXCEPT !._start_time = value])

\* CloudRecord.start_time setter
start_time_set(obj, value) ==
    IF Truthy(value) /\ ~IsDatetime(value) THEN Raised("ValueError", obj)
    ELSE Returned([obj EXCEPT !._start_time = value])

\* CloudRecord.end_time setter
end_time_set(obj, value) ==
    IF Truthy(value) /\ ~IsDatetime(value) THEN Raised("ValueError", obj)
    ELSE Returned([obj EXCEPT !._end_time = value])

\* CloudRecord.start_time, CloudRecord.end_time getters
start_time(obj) == obj._start_time
end_time(obj) == obj._end_time

\* wall_duration getter that subtracts the wrong way round
wall_duration_Swapped(obj) ==
    LET duration ==
          IF obj._wall_duration # NoneV THEN obj._wall_duration
          ELSE IF NoneV \notin {obj._start_time, obj._end_time}
               THEN TotalSeconds(PySub(start_time(obj), end_time(obj)))
               ELSE NoneV
    IN  PyAnd(duration, PyInt(duration))

\* wall_duration getter that tests the explicit value for truth, not for None
wall_duration_Truthy(obj) ==
    LET duration ==
          IF Truthy(obj._wall_duration) THEN obj._wall_duration
          ELSE IF NoneV \notin {obj._start_time, obj._end_time}
               THEN TotalSeconds(PySub(end_time(obj), start_time(obj)))
               ELSE NoneV
    IN  PyAnd(duration, PyInt(duration))

\* CloudRecord.wall_duration getter
wall_duration(obj) ==
    LET duration ==
          IF obj._wall_duration # NoneV THEN obj._wall_duration
          ELSE IF NoneV \notin {obj._start_time, obj._end_time}
               THEN TotalSeconds(PySub(end_time(obj), start_time(obj)))
               ELSE NoneV
    IN  PyAnd(duration, PyInt(duration))

\* cpu_duration getter that does not test cpu_count for truth
cpu_duration_NoCountCheck(obj) ==
    LET wall == wall_duration(obj)
        duration ==
          IF obj._cpu_duration # NoneV THEN obj._cpu_duration
          ELSE IF IsExc(wall) THEN wall
          ELSE IF wall # NoneV /\ obj.cpu_count # NoneV
               THEN PyMul(wall, obj.cpu_count)
               ELSE NoneV
    IN  PyAnd(duration, PyInt(duration))

\* cpu_duration getter that multiplies the stored explicit wall duration
\* instead of the wall duration derived at the time of the call
cpu_duration_StoredWall(obj) ==
    LET wall == obj._wall_duration
        duration ==
          IF obj._cpu_duration # NoneV THEN obj._cpu_duration
          ELSE IF wall # NoneV /\ Truthy(obj.cpu_count)
               THEN PyMul(wall, obj.cpu_count)
               ELSE NoneV
    IN  PyAnd(duration, PyInt(duration))

\* CloudRecord.cpu_duration getter
cpu_duration(obj) ==
    LET wall == wall_duration(obj)
        duration ==
          IF obj._cpu_duration # NoneV THEN obj._cpu_duration
          ELSE IF IsExc(wall) THEN wall
          ELSE IF wall # NoneV /\ Truthy(obj.cpu_count)
               THEN PyMul(wall, obj.cpu_count)
               ELSE NoneV
    IN  PyAnd(duration, PyInt(duration))

\* The first exception raised while the values of a dict display are
\* evaluated in order, or None.
RECURSIVE FirstRaised(_)
FirstRaised(values) ==
    IF values = <<>> THEN NoneV
    ELSE IF IsExc(Head(values)) THEN Head(values)
    ELSE FirstRaised(Tail(values))

\* CloudRecord.map
CloudRecord_map(obj) ==
    LET StartTime == PyAnd(start_time(obj), PyInt(Strftime(start_time(obj))))
        EndTime == PyAnd(end_time(obj), PyInt(Strftime(end_time(obj))))
        WallDuration == wall_duration(obj)
        CpuDuration == cpu_duration(obj)
        raised == FirstRaised(<<StartTime, EndTime, WallDuration, CpuDuration>>)
        d == [ VMUUID |-> obj.uuid,
               SiteName |-> obj.site,
               MachineName |-> obj._name,
               LocalUserId |-> obj.user_id,
               LocalGroupId |-> obj.group_id,
               FQAN |-> obj.fqan,
               Status |-> obj.status,
               StartTime |-> StartTime,
               EndTime |-> EndTime,
               SuspendDuration |-> obj.suspend_duration,
               WallDuration |-> WallDuration,
               CpuDuration |-> CpuDuration,
               CpuCount |-> obj.cpu_count,
               NetworkType |-> obj.network_type,
               NetworkInbound |-> obj.network_in,
               NetworkOutbound |-> obj.network_out,
               Memory |-> obj.memory,
               Disk |-> obj.disk,
               StorageRecordId |-> obj.storage_record_id,
               ImageId |-> obj.image_id,
               CloudType |-> obj.cloud_type,
               GlobalUserName |-> obj.user_dn,
               PublicIPCount |-> obj.public_ip_count,
               Benchmark |-> obj.benchmark_value,
               BenchmarkType |-> obj.benchmark_type,
               CloudComputeService |-> obj.compute_service ]
    IN  IF raised # NoneV THEN raised ELSE DictV(d)

\* {k: v for k, v in m.items() if k in fields}
Filter(m, fields) ==
    LET items == m.v
        allowed == Range(fields)
    IN  DictV([k \in DOMAIN items \cap allowed |-> items[k]])

\* CloudRecord.as_dict
CloudRecord_as_dict(obj, version) ==
    LET ver == IF version = NoneV THEN CloudRecord_version ELSE version
    IN  IF ver \notin DOMAIN CloudRecord_version_field_map
        THEN Raise("RecordVersionNotFound")
        ELSE LET m == CloudRecord_map(obj)
             IN  IF IsExc(m) THEN m
                 ELSE Filter(m, CloudRecord_version_field_map[ver])

\* json.dumps of one value
JsonToken(x) ==
    CASE x.t = "NoneType" -> [t |-> "json_null", v |-> <<>>]
      [] x.t = "int" -> [t |-> "json_int", v |-> x.v]
      [] x.t = "float" -> [t |-> "json_real", v |-> x.v]
      [] x.t = "float_inf" -> [t |-> "json_Infinity", v |-> <<>>]
      [] x.t = "str" -> [t |-> "json_string", v |-> x.v]
      [] OTHER -> Raise("TypeError")

\* json.dumps(d) for the result d of as_dict: the object text, member by member
json_dumps(d) ==
    IF IsExc(d) THEN d
    ELSE IF \E k \in DOMAIN d.v : IsExc(JsonToken(d.v[k])) THEN Raise("TypeError")
    ELSE [t |-> "json_object", v |-> [k \in DOMAIN d.v |-> JsonToken(d.v[k])]]

\* CloudRecord.as_json
CloudRecord_as_json(obj, version) == json_dumps(CloudRecord_as_dict(obj, version))

\* CloudRecord.__init__: the arguments are a record a; the result is
\* [raised, obj] like a setter's, obj being the constructed object.
RECURSIVE Chain(_, _)
Chain(r, steps) ==
    IF steps = <<>> \/ r.raised # NoneV THEN r
    ELSE LET step == Head(steps)
         IN  Chain(CASE step[1] = "name" -> name_set(r.obj, step[2])
                     [] step[1] = "start_time" -> start_time_set(r.obj, step[2])
                     [] step[1] = "end_time" -> end_time_set(r.obj, step[2])
                     [] step[1] = "wall_duration" -> wall_duration_set(r.obj, step[2])
                     [] step[1] = "cpu_duration" -> cpu_duration_set(r.obj, step[2]),
                   Tail(steps))

CloudRecord_init(a) ==
    Chain(Returned([ class |-> "CloudRecord",
                     uuid |-> a.uuid,
                     site |-> a.site,
                     _name |-> NoneV,
                     user_id |-> a.user_id,
                     group_id |-> a.group_id,
                     fqan |-> a.fqan,
                     status |-> a.status,
                     _start_time |-> NoneV,
                     _end_time |-> NoneV,
                     suspend_duration |-> a.suspend_duration,
                     _wall_duration |-> NoneV,
                     _cpu_duration |-> NoneV,
                     network_type |-> a.network_type,
                     network_in |-> a.network_in,
                     network_out |-> a.network_out,
                     cpu_count |-> a.cpu_count,
                     memory |-> a.memory,
                     disk |-> a.disk,
                     image_id |-> a.image_id,
                     cloud_type |-> a.cloud_type,
                     storage_record_id |-> a.storage_record_id,
                     user_dn |-> a.user_dn,
                     compute_service |-> a.compute_service,
                     benchmark_value |-> a.benchmark_value,
                     benchmark_type |-> a.benchmark_type,
                     public_ip_count |-> a.public_ip_count ]),
          << <<"name", a.name>>, <<"start_time", a.start_time>>,
             <<"end_time", a.end_time>>, <<"wall_duration", a.wall_duration>>,
             <<"cpu_duration", a.cpu_duration>> >>)

-----------------------------------------------------------------------------
(* class IPRecord *)
IPRecord_version == V02

IPRecord_V02_fields ==
    << "MeasurementTime", "SiteName", "CloudComputeService", "CloudType",
       "LocalUser", "LocalGroup", "GlobalUserName", "FQAN", "IPVersion",
       "IPCount" >>

IPRecord_version_field_map == [ver \in {V02} |-> IPRecord_V02_fields]

\* IPRecord.measure_time setter
measure_time_set(obj, value) ==
    IF Truthy(value) /\ ~IsDatetime(value) THEN Raised("ValueError", obj)
    ELSE Returned([obj EXCEPT !._measure_time = value])

\* IPRecord.measure_time getter
measure_time(obj) == obj._measure_time

\* IPRecord.__init__
IPRecord_init(a) ==
    measure_time_set([ class |-> "IPRecord",
                       _measure_time |-> NoneV,
                       site |-> a.site,
                       cloud_type |-> a.cloud_type,
                       user_id |-> a.user_id,
                       group_id |-> a.group_id,
                       user_dn |-> a.user_dn,
                       fqan |-> a.fqan,
                       compute_service |-> a.compute_service,
                       ip_version |-> a.ip_version,
                       public_ip_count |-> a.public_ip_count ],
                     a.measure_time)

\* IPRecord.map without the CloudComputeService entry
IPRecord_map_NoService(obj) ==
    LET MeasurementTime ==
            PyAnd(measure_time(obj), PyInt(Strftime(measure_time(obj))))
        d == [ MeasurementTime |-> MeasurementTime,
               SiteName |-> obj.site,
               CloudType |-> obj.cloud_type,
               LocalUser |-> obj.user_id,
               LocalGroup |-> obj.group_id,
               FQAN |-> obj.fqan,
               GlobalUserName |-> obj.user_dn,
               IPVersion |-> obj.ip_version,
               IPCount |-> obj.public_ip_count ]
    IN  IF IsExc(MeasurementTime) THEN MeasurementTime ELSE DictV(d)

\* IPRecord.map
IPRecord_map(obj) ==
    LET MeasurementTime ==
            PyAnd(measure_time(obj), PyInt(Strftime(measure_time(obj))))
        d == [ MeasurementTime |-> MeasurementTime,
               SiteName |-> obj.site,
               CloudType |-> obj.cloud_type,
               LocalUser |-> obj.user_id,
               LocalGroup |-> obj.group_id,
               FQAN |-> obj.fqan,
               GlobalUserName |-> obj.user_dn,
               IPVersion |-> obj.ip_version,
               IPCount |-> obj.public_ip_count,
               CloudComputeService |-> obj.compute_service ]
    IN  IF IsExc(MeasurementTime) THEN MeasurementTime ELSE DictV(d)

\* IPRecord.as_dict
IPRecord_as_dict(obj, version) ==
    LET ver == IF version = NoneV THEN IPRecord_version ELSE version
    IN  IF ver \notin DOMAIN IPRecord_version_field_map
        THEN Raise("RecordVersionNotFound")
        ELSE LET m == IPRecord_map(obj)
             IN  IF IsExc(m) THEN m
                 ELSE Filter(m, IPRecord_version_field_map[ver])

\* IPRecord.as_json
IPRecord_as_json(obj, version) == json_dumps(IPRecord_as_dict(obj, version))

-----------------------------------------------------------------------------
(* class AcceleratorRecord *)
AcceleratorRecord_version == V01

AcceleratorRecord_V01_fields ==
    << "MeasurementMonth", "MeasurementYear", "AssociatedRecordType",
       "AssociatedRecord", "GlobalUserName", "FQAN", "SiteName", "Count",
       "Cores", "ActiveDuration", "AvailableDuration", "BenchmarkType",
       "Benchmark", "Type", "Model" >>

AcceleratorRecord_version_field_map ==
    [ver \in {V01} |-> AcceleratorRecord_V01_fields]

\* AcceleratorRecord.__init__
AcceleratorRecord_init(a) ==
    Returned([ class |-> "AcceleratorRecord",
               measurement_month |-> a.measurement_month,
               measurement_year |-> a.measurement_year,
               associated_record_type |-> a.associated_record_type,
               uuid |-> a.uuid,
               fqan |-> a.fqan,
               site |-> a.site,
               count |-> a.count,
               available_duration |-> a.available_duration,
               accelerator_type |-> a.accelerator_type,
               user_dn |-> a.user_dn,
               cores |-> a.cores,
               _active_duration |-> a.active_duration,
               benchmark_type |-> a.benchmark_type,
               benchmark |-> a.benchmark,
               model |-> a.model ])

\* active_duration getter that tests the explicit value for truth
active_duration_Truthy(obj) ==
    IF Truthy(obj._active_duration) THEN obj._active_duration
    ELSE obj.available_duration

\* AcceleratorRecord.active_duration getter
active_duration(obj) ==
    IF obj._active_duration # NoneV THEN obj._active_duration
    ELSE obj.available_duration

\* AcceleratorRecord.active_duration setter
active_duration_set(obj, value) ==
    Returned([obj EXCEPT !._active_duration = value])

\* AcceleratorRecord.map
AcceleratorRecord_map(obj) ==
    DictV([ MeasurementMonth |-> obj.measurement_month,
            MeasurementYear |-> obj.measurement_year,
            AssociatedRecordType |-> obj.associated_record_type,
            AssociatedRecord |-> obj.uuid,
            GlobalUserName |-> obj.user_dn,
            FQAN |-> obj.fqan,
            SiteName |-> obj.site,
            Count |-> obj.count,
            Cores |-> obj.cores,
            ActiveDuration |-> active_duration(obj),
            AvailableDuration |-> obj.available_duration,
            BenchmarkType |-> obj.benchmark_type,
            Benchmark |-> obj.benchmark,
            Type |-> obj.accelerator_type,
            Model |-> obj.model ])

\* as_dict that formats an unknown version as the default version
AcceleratorRecord_as_dict_Fallback(obj, version) ==
    LET ver == IF version \notin DOMAIN AcceleratorRecord_version_field_map
               THEN AcceleratorRecord_version ELSE version
        m == AcceleratorRecord_map(obj)
    IN  IF IsExc(m) THEN m
        ELSE Filter(m, AcceleratorRecord_version_field_map[ver])

\* AcceleratorRecord.as_dict
AcceleratorRecord_as_dict(obj, version) ==
    LET ver == IF version = NoneV THEN AcceleratorRecord_version ELSE version
    IN  IF ver \notin DOMAIN AcceleratorRecord_version_field_map
        THEN Raise("RecordVersionNotFound")
        ELSE LET m == AcceleratorRecord_map(obj)
             IN  IF IsExc(m) THEN m
                 ELSE Filter(m, AcceleratorRecord_version_field_map[ver])

\* AcceleratorRecord.as_json
AcceleratorRecord_as_json(obj, version) ==
    json_dumps(AcceleratorRecord_as_dict(obj, version))

-----------------------------------------------------------------------------
(* Dispatch on the class of the object *)
as_dict(obj, version) ==
    CASE obj.class = "CloudRecord" -> CloudRecord_as_dict(obj, version)
      [] obj.class = "IPRecord" -> IPRecord_as_dict(obj, version)
      [] obj.class = "AcceleratorRecord" -> AcceleratorRecord_as_dict(obj, version)

as_json(obj, version) ==
    CASE obj.class = "CloudRecord" -> CloudRecord_as_json(obj, version)
      [] obj.class = "IPRecord" -> IPRecord_as_json(obj, version)
      [] obj.class = "AcceleratorRecord" -> AcceleratorRecord_as_json(obj, version)

-----------------------------------------------------------------------------
(* Inputs *)
\* "", "x"
EmptyStr == StrV(<<>>)
SomeStr == StrV(<<120>>)

Datetimes == {DatetimeV(k) : k \in 0..MaxTick}
\* values offered to the timestamp setters
TimeInputs == {NoneV, IntV(0), SomeStr} \cup Datetimes
\* values offered to the duration setters: None, "", "x", inf, 0 and MaxDur
DurInputs ==
    {NoneV, EmptyStr, SomeStr, InfV, IntV(0), IntV(MaxDur)}
\* values assigned to the counts: None, 0 and MaxCount
CountInputs == {NoneV, IntV(0), IntV(MaxCount)}
VersionInputs == {NoneV, V01, V02, V04}
\* "v1" and "vé1"
NameInputs == {StrV(<<118, 49>>), StrV(<<118, 233, 49>>)}

CloudArgs ==
    [ uuid : {StrV(<<117>>)}, site : {StrV(<<115>>)}, name : NameInputs,
      user_id : {StrV(<<117>>)}, group_id : {StrV(<<103>>)},
      fqan : {StrV(<<102>>)}, cloud_type : {user_agent},
      compute_service : {NoneV}, status : {NoneV},
      start_time : TimeInputs, end_time : TimeInputs,
      suspend_duration : {NoneV}, wall_duration : {NoneV},
      cpu_duration : {NoneV}, network_type : {NoneV}, network_in : {NoneV},
      network_out : {NoneV}, public_ip_count : {NoneV},
      cpu_count : CountInputs, memory : {NoneV}, disk : {NoneV},
      image_id : {NoneV}, storage_record_id : {NoneV}, user_dn : {NoneV},
      benchmark_value : {NoneV}, benchmark_type : {NoneV} ]

IPArgs ==
    [ measure_time : TimeInputs, site : {StrV(<<115>>)},
      user_id : {StrV(<<117>>)}, group_id : {StrV(<<103>>)},
      user_dn : {NoneV}, fqan : {StrV(<<102>>)}, ip_version : {IntV(4)},
      public_ip_count : CountInputs, cloud_type : {user_agent},
      compute_service : {NoneV} ]

AcceleratorArgs ==
    [ uuid : {StrV(<<117>>)}, fqan : {StrV(<<102>>)}, site : {StrV(<<115>>)},
      count : {IntV(1)}, available_duration : DurInputs \ {NoneV},
      accelerator_type : {StrV(<<71>>)}, measurement_month : {IntV(6)},
      measurement_year : {IntV(2021)},
      associated_record_type : {StrV(<<99>>)}, user_dn : {NoneV},
      cores : {NoneV}, active_duration : DurInputs, benchmark_type : {NoneV},
      benchmark : {NoneV}, model : {NoneV} ]

\* attributes without a setter, and the values assigned to them
PlainAssignments(obj) ==
    CASE obj.class = "CloudRecord" ->
            {"cpu_count"} \X CountInputs
      [] obj.class = "IPRecord" -> {"public_ip_count"} \X CountInputs
      [] obj.class = "AcceleratorRecord" -> {"available_duration"} \X DurInputs

-----------------------------------------------------------------------------
(* The state machine *)
Call(op, arg, ret) == [op |-> op, arg |-> arg, ret |-> ret]

Init ==
    /\ \E r \in {CloudRecord_init(a) : a \in CloudArgs}
               \cup {IPRecord_init(a) : a \in IPArgs}
               \cup {AcceleratorRecord_init(a) : a \in AcceleratorArgs} :
          /\ r.raised = NoneV
          /\ self = r.obj
          /\ given = [how |-> "init",
                      value |-> IF r.obj.class = "AcceleratorRecord"
                                THEN r.obj._active_duration ELSE NoneV]
    /\ last = Call("init", NoneV, NoneV)

\* obj.<attr> = value through a setter
Assign(op, r, value) ==
    /\ self' = r.obj
    /\ last' = Call(op, value, r.raised)

SetName ==
    /\ self.class = "CloudRecord"
    /\ \E value \in NameInputs : Assign("set_name", name_set(self, value), value)
    /\ UNCHANGED given

SetStartTime ==
    /\ self.class = "CloudRecord"
    /\ \E value \in TimeInputs :
          Assign("set_start_time", start_time_set(self, value), value)
    /\ UNCHANGED given

SetEndTime ==
    /\ self.class = "CloudRecord"
    /\ \E value \in TimeInputs :
          Assign("set_end_time", end_time_set(self, value), value)
    /\ UNCHANGED given

SetWallDuration ==
    /\ self.class = "CloudRecord"
    /\ \E value \in DurInputs :
          Assign("set_wall_duration", wall_duration_set(self, value), value)
    /\ UNCHANGED given

SetCpuDuration ==
    /\ self.class = "CloudRecord"
    /\ \E value \in DurInputs :
          Assign("set_cpu_duration", cpu_duration_set(self, value), value)
    /\ UNCHANGED given

SetMeasureTime ==
    /\ self.class = "IPRecord"
    /\ \E value \in TimeInputs :
          Assign("set_measure_time", measure_time_set(self, value), value)
    /\ UNCHANGED given

SetActiveDuration ==
    /\ self.class = "AcceleratorRecord"
    /\ \E value \in DurInputs :
          /\ Assign("set_active_duration", active_duration_set(self, value), value)
          /\ given' = [how |-> "setter", value |-> value]

\* obj.<attr> = value for an attribute without a setter
SetAttr ==
    /\ \E av \in PlainAssignments(self) :
          /\ self' = [self EXCEPT ![av[1]] = av[2]]
          /\ last' = Call("set_" \o av[1], av[2], NoneV)
    /\ UNCHANGED given

GetWallDuration ==
    /\ self.class = "CloudRecord"
    /\ last' = Call("wall_duration", NoneV, wall_duration(self))
    /\ UNCHANGED <<self, given>>

GetCpuDuration ==
    /\ self.class = "CloudRecord"
    /\ last' = Call("cpu_duration", NoneV, cpu_duration(self))
    /\ UNCHANGED <<self, given>>

GetActiveDuration ==
    /\ self.class = "AcceleratorRecord"
    /\ last' = Call("active_duration", NoneV, active_duration(self))
    /\ UNCHANGED <<self, given>>

AsDict ==
    /\ \E version \in VersionInputs :
          last' = Call("as_dict", version, as_dict(self, version))
    /\ UNCHANGED <<self, given>>

AsJson ==
    /\ \E version \in VersionInputs :
          last' = Call("as_json", version, as_json(self, version))
    /\ UNCHANGED <<self, given>>

Next ==
    \/ SetName
    \/ SetStartTime
    \/ SetEndTime
    \/ SetWallDuration
    \/ SetCpuDuration
    \/ SetMeasureTime
    \/ SetActiveDuration
    \/ SetAttr
    \/ GetWallDuration
    \/ GetCpuDuration
    \/ GetActiveDuration
    \/ AsDict
    \/ AsJson

Spec == Init /\ [][Next]_vars

-----------------------------------------------------------------------------
(* Properties *)
IsCloud == self.class = "CloudRecord"
IsIP == self.class = "IPRecord"
IsAccelerator == self.class = "AcceleratorRecord"

\* the version sets and default versions the specification states
KnownVersions ==
    CASE IsCloud -> {V02, V04} [] IsIP -> {V02} [] IsAccelerator -> {V01}
DefaultVersion ==
    CASE IsCloud -> V04 [] IsIP -> V02 [] IsAccelerator -> V01
\* the field list the class declares for a known version
DeclaredFields(ver) ==
    CASE IsCloud -> Range(CloudRecord_version_field_map[ver])
      [] IsIP -> Range(IPRecord_version_field_map[ver])
      [] IsAccelerator -> Range(AcceleratorRecord_version_field_map[ver])

ReturnedDict == last.op = "as_dict" /\ last.ret.t = "dict"

\* C1: every mapping as_dict returns has exactly the declared fields of the
\* requested version as its keys, unset attributes appearing with the value
\* None; without a version argument that is the default version ("0.4",
\* "0.2", "0.1"); and for a CloudRecord the keys of version "0.2" are a strict
\* subset of the keys of version "0.4".
C1_KeysAreTheDeclaredFields ==
    ReturnedDict =>
        LET ver == IF last.arg = NoneV THEN DefaultVersion ELSE last.arg
            keys == DOMAIN last.ret.v
        IN  /\ ver \in KnownVersions
            /\ keys = DeclaredFields(ver)
            /\ last.arg = NoneV => last.ret = as_dict(self, DefaultVersion)
            /\ (IsCloud /\ ver = V02) =>
                  /\ keys \subseteq DOMAIN as_dict(self, V04).v
                  /\ keys # DOMAIN as_dict(self, V04).v
            /\ (IsCloud => last.ret.v.Status = NoneV)
            /\ (IsIP => last.ret.v.GlobalUserName = NoneV)
            /\ (IsAccelerator => last.ret.v.Model = NoneV)

C1_Witness ==
    /\ ReturnedDict /\ IsCloud /\ last.arg = V02
    /\ self._wall_duration = IntV(MaxDur) /\ self.cpu_count = IntV(MaxCount)
    /\ Cardinality(DOMAIN last.ret.v) = 22
    /\ last.ret.v.Status = NoneV

\* C2: as_dict and as_json called with a version string that is not a known
\* version of the record's class raise RecordVersionNotFound: no mapping is
\* returned, neither the default version's nor a partly filtered one.
C2_UnknownVersionRaises ==
    (last.op \in {"as_dict", "as_json"} /\ last.arg \notin KnownVersions \cup {NoneV})
        => last.ret = Raise("RecordVersionNotFound")

C2_Witness ==
    /\ IsAccelerator /\ last.op = "as_json" /\ last.arg = V04
    /\ last.ret = Raise("RecordVersionNotFound")

\* C3: assigning a value that is not a number, the empty string included, to
\* wall_duration or cpu_duration raises, and assigning a value that is not a
\* datetime, 0 included, to start_time or end_time raises; so the stored
\* durations are None or numbers and the stored timestamps None or datetimes.
C3_SettersRejectEveryWrongType ==
    /\ (last.op \in {"set_wall_duration", "set_cpu_duration"}
            /\ last.arg # NoneV /\ ~IsNumber(last.arg))
          => last.ret = Raise("ValueError")
    /\ (last.op \in {"set_start_time", "set_end_time"}
            /\ last.arg # NoneV /\ ~IsDatetime(last.arg))
          => last.ret = Raise("ValueError")
    /\ IsCloud =>
          /\ self._wall_duration = NoneV \/ IsNumber(self._wall_duration)
          /\ self._cpu_duration = NoneV \/ IsNumber(self._cpu_duration)
          /\ self._start_time = NoneV \/ IsDatetime(self._start_time)
          /\ self._end_time = NoneV \/ IsDatetime(self._end_time)

\* the case of C4: explicit integer wall duration and cpu count, no explicit
\* cpu duration
ExplicitWallAndCount ==
    /\ IsCloud
    /\ self._wall_duration.t = "int"
    /\ self.cpu_count.t = "int"
    /\ self._cpu_duration = NoneV

Product == IntV(self._wall_duration.v * self.cpu_count.v)

\* C4 as stated: with explicit wall duration W and cpu count C and no explicit
\* cpu duration, cpu_duration and the CpuDuration entry are W * C, for all
\* integers W and C, C = 0 included.
C4_ProductForEveryCount ==
    ExplicitWallAndCount =>
        /\ cpu_duration(self) = Product
        /\ ReturnedDict => last.ret.v.CpuDuration = Product

\* C4 as amended: they are W * C for every integer W and every nonzero integer
\* C, and None when C = 0.
C4_ProductForNonzeroCount ==
    ExplicitWallAndCount =>
        LET expected == IF self.cpu_count.v # 0 THEN Product ELSE NoneV
        IN  /\ cpu_duration(self) = expected
            /\ ReturnedDict => last.ret.v.CpuDuration = expected
            /\ last.op = "cpu_duration" => last.ret = expected

C4_Witness ==
    /\ ExplicitWallAndCount
    /\ self._wall_duration = IntV(MaxDur) /\ self.cpu_count = IntV(MaxCount)
    /\ last.op = "cpu_duration" /\ last.ret = IntV(MaxDur * MaxCount)

\* both timestamps are datetimes a whole number of seconds apart
WholeSecondsApart ==
    /\ IsCloud
    /\ IsDatetime(self._start_time) /\ IsDatetime(self._end_time)
    /\ (self._end_time.v - self._start_time.v) % Ticks = 0
SecondsApart == (self._end_time.v - self._start_time.v) \div Ticks

\* C5: without an explicit wall duration, wall_duration is N when end_time is
\* start_time + N seconds (N = 0 and N < 0 included) and None when start_time
\* or end_time is None; an explicit wall duration that is not None takes
\* precedence over the timestamps.
C5_WallDuration ==
    IsCloud =>
        LET wall == wall_duration(self)
        IN  /\ (self._wall_duration = NoneV /\ WholeSecondsApart)
                  => PyEq(wall, IntV(SecondsApart))
            /\ (self._wall_duration = NoneV
                    /\ NoneV \in {self._start_time, self._end_time})
                  => wall = NoneV
            /\ self._wall_duration.t = "int" => wall = self._wall_duration
            /\ self._wall_duration # NoneV
                  => wall \in {self._wall_duration, Raise("OverflowError")}
            /\ last.op = "wall_duration" => last.ret = wall

C5_Witness ==
    /\ WholeSecondsApart /\ SecondsApart = 1
    /\ self._wall_duration = NoneV
    /\ last.op = "wall_duration" /\ last.ret = IntV(1)

\* C6 as stated: once active_duration has been assigned X, for every X, a
\* read of active_duration returns X.
C6_ReadsBackEveryAssignedValue ==
    (IsAccelerator /\ given.how = "setter") => active_duration(self) = given.value

\* C6 as amended: while the value last given for active_duration is None (the
\* constructor's default included), active_duration is the current
\* available_duration; once a value X other than None is given, active_duration
\* and the ActiveDuration entry are X, whatever available_duration becomes.
C6_ActiveDuration ==
    IsAccelerator =>
        LET expected == IF given.value = NoneV THEN self.available_duration
                        ELSE given.value
        IN  /\ active_duration(self) = expected
            /\ last.op = "active_duration" => last.ret = expected
            /\ ReturnedDict =>
                  /\ last.ret.v.ActiveDuration = expected
                  /\ last.ret.v.AvailableDuration = self.available_duration

C6_Witness ==
    /\ IsAccelerator
    /\ given = [how |-> "setter", value |-> IntV(0)]
    /\ self.available_duration = IntV(MaxDur)
    /\ last.op = "active_duration" /\ last.ret = IntV(0)

ValidatingSetters ==
    {"set_wall_duration", "set_cpu_duration", "set_start_time", "set_end_time",
     "set_measure_time"}

\* C7: a call of a validating setter that raises leaves the object as it was:
\* the rejected value is not stored, no attribute changes and as_dict returns
\* what it returned before.
C7_RejectedAssignmentIsAtomic ==
    [][ (last'.op \in ValidatingSetters /\ IsExc(last'.ret)) =>
            /\ self' = self
            /\ last'.ret = Raise("ValueError")
            /\ as_dict(self', NoneV) = as_dict(self, NoneV) ]_vars

C7_Witness ==
    /\ IsCloud
    /\ last.op = "set_start_time" /\ last.arg = SomeStr
    /\ last.ret = Raise("ValueError")
    /\ IsDatetime(self._start_time)

\* seconds since the epoch of a stored timestamp, as map reports it
EpochSeconds(x) == IF IsDatetime(x) THEN IntV(x.v \div Ticks) ELSE x

\* C8: as_dict and as_json change no attribute, and the mapping as_dict
\* returns holds StartTime, EndTime, WallDuration and CpuDuration derived from
\* the attribute values at the time of that call.
C8_MapIsRecomputed ==
    [][ (last'.op \in {"as_dict", "as_json"}) =>
            /\ self' = self
            /\ (self'.class = "CloudRecord" /\ last'.op = "as_dict"
                    /\ last'.ret.t = "dict") =>
                  LET d == last'.ret.v
                      span == (self'._end_time.v - self'._start_time.v)
                      both == IsDatetime(self'._start_time)
                                /\ IsDatetime(self'._end_time)
                  IN  /\ d.StartTime = EpochSeconds(self'._start_time)
                      /\ d.EndTime = EpochSeconds(self'._end_time)
                      /\ self'._wall_duration.t = "int"
                            => d.WallDuration = self'._wall_duration
                      /\ (self'._wall_duration = NoneV /\ both)
                            => PyEq(d.WallDuration, IntV(Trunc(span)))
                      /\ self'._cpu_duration.t = "int"
                            => d.CpuDuration = self'._cpu_duration
                      /\ (self'._cpu_duration = NoneV /\ self'._wall_duration = NoneV
                              /\ both /\ self'.cpu_count.t = "int"
                              /\ self'.cpu_count.v # 0)
                            => PyEq(d.CpuDuration,
                                    IntV(Trunc(span) * self'.cpu_count.v)) ]_vars

C8_Witness ==
    /\ ReturnedDict /\ IsCloud
    /\ self._wall_duration = NoneV /\ self._cpu_duration = NoneV
    /\ self._start_time = DatetimeV(0) /\ self._end_time = DatetimeV(Ticks)
    /\ self.cpu_count = IntV(MaxCount)
    /\ last.ret.v.WallDuration = IntV(1)
    /\ last.ret.v.CpuDuration = IntV(MaxCount)

\* the two cases of C9
ZeroWallWithTimestamps ==
    /\ WholeSecondsApart /\ SecondsApart > 0
    /\ self._wall_duration = IntV(0)
ZeroCpuWithWallAndCount ==
    /\ IsCloud
    /\ self._cpu_duration = IntV(0)
    /\ wall_duration(self).t = "int"
    /\ self.cpu_count.t = "int" /\ self.cpu_count.v # 0

\* C9 as stated: an explicit duration of 0 counts as not set: wall_duration is
\* the N > 0 seconds between the timestamps, cpu_duration the product W * C.
C9_ZeroCountsAsUnset ==
    /\ ZeroWallWithTimestamps => PyEq(wall_duration(self), IntV(SecondsApart))
    /\ ZeroCpuWithWallAndCount =>
          PyEq(cpu_duration(self), IntV(wall_duration(self).v * self.cpu_count.v))

\* C9 as amended: an explicit duration of 0 counts as set: wall_duration is 0,
\* not the N > 0 seconds between the timestamps, and cpu_duration is 0, not
\* the product W * C.
C9_ZeroCountsAsSet ==
    /\ ZeroWallWithTimestamps =>
          /\ wall_duration(self) = IntV(0)
          /\ last.op = "wall_duration" => last.ret = IntV(0)
    /\ ZeroCpuWithWallAndCount =>
          /\ cpu_duration(self) = IntV(0)
          /\ last.op = "cpu_duration" => last.ret = IntV(0)

C9_Witness ==
    /\ ZeroWallWithTimestamps
    /\ last.op = "wall_duration" /\ last.ret = IntV(0)

\* C10: as_dict of a CloudRecord or IPRecord with a known version, or with no
\* version, returns a mapping: it does not raise.
C10_SerialisationNeverRaises ==
    (last.op = "as_dict" /\ (IsCloud \/ IsIP)
        /\ last.arg \in KnownVersions \cup {NoneV})
      => last.ret.t = "dict"

====
